---- MODULE Spec2Model ----
(***************************************************************************)
(* Model of mcutils/__init__.py: the NumConv base-N codec, the             *)
(* random_in_range sampler and the get_unique_id / get_unique_id_str       *)
(* allocators.                                                             *)
(*                                                                         *)
(* A character is its code point (ord), a Python string is a sequence of   *)
(* code points, so that lower(), upper() and the chr(0..255) table of      *)
(* _random are computed and not assumed.                                   *)
(***************************************************************************)
EXTENDS Integers, Sequences, FiniteSets, TLC

(***************************************************************************)
(* Bounds of the model.                                                    *)
(***************************************************************************)
\* largest integer handed to int2str
MaxNum == 70
\* longest string handed to str2int
MaxLen == 3
\* largest |bound| handed to random_in_range
MaxBound == 9
\* bit length standing for the 64 of the default max_value 2L ** 64 - 1
\* (TLC integers are 32 bit wide; the default keeps its all-ones shape)
DefaultBits == 5
\* deepest recursion of random_in_range that is followed
MaxDepth == 3
\* number of entropy bytes drawn by _random; RANDOM_ID_SOURCE_BYTES is 7 in
\* the source, 256^7 does not fit a TLC integer
SourceBytes == 2
\* most calls of the predicate that are followed in one allocation
MaxCalls == 4

\* calls of load_fixture
MaxFixtures == 3
\* calls of the memoized method
MaxMemoCalls == 5
\* the largest cache generation followed
MaxGen == 4
\* calls of the decorated function by each process
MaxLockCalls == 2
\* applications of monkeypatch_method to one class
MaxPatches == 3
\* the last reading of the clock and the number of reads of the property
MaxTime == 4
MaxReads == 4

(***************************************************************************)
(* Characters and strings.                                                 *)
(***************************************************************************)
Range(s) == {s[i] : i \in 1..Len(s)}

\* str.lower() / str.upper() on one ASCII character
LowerChar(c) == IF c \in 65..90 THEN c + 32 ELSE c

UpperChar(c) == IF c \in 97..122 THEN c - 32 ELSE c

Lower(s) == [i \in 1..Len(s) |-> LowerChar(s[i])]

Upper(s) == [i \in 1..Len(s) |-> UpperChar(s[i])]

\* the slice s[:n] for n >= 0
Prefix(s, n) == SubSeq(s, 1, IF n < Len(s) THEN n ELSE Len(s))

\* '0123456789'
Digits == [i \in 1..10 |-> 47 + i]

\* 'ABC...Z'
UpperLetters == [i \in 1..26 |-> 64 + i]

\* 'abc...z'
LowerLetters == [i \in 1..26 |-> 96 + i]

\* '!#$%&()*+-;<=>?@^_`{|}~'
Punctuation ==
  <<33, 35, 36, 37, 38, 40, 41, 42, 43, 45, 59, 60, 61, 62, 63, 64,
    94, 95, 96, 123, 124, 125, 126>>

BASE85 == Digits \o UpperLetters \o LowerLetters \o Punctuation

BASE16 == Prefix(BASE85, 16)

BASE32 == UpperLetters \o <<50, 51, 52, 53, 54, 55>>

BASE32HEX == Prefix(BASE85, 32)

BASE64 == UpperLetters \o LowerLetters \o Digits \o <<43, 47>>

BASE64URL == Prefix(BASE64, 62) \o <<45, 95>>

BASE62 == Prefix(BASE85, 62)

(***************************************************************************)
(* Python integer arithmetic: // and % round towards minus infinity and    *)
(* raise ZeroDivisionError on a zero divisor (callers test for it).        *)
(***************************************************************************)
PyFloorDiv(a, b) == IF b > 0 THEN a \div b ELSE (-a) \div (-b)

PyMod(a, b) == a - b * PyFloorDiv(a, b)

(***************************************************************************)
(* Outcomes of a call: a returned value or a raised exception.             *)
(***************************************************************************)
Ret(v) == [ok |-> TRUE, val |-> v, exc |-> "none"]

Raise(e) == [ok |-> FALSE, val |-> 0, exc |-> e]

RetStr(s) == [ok |-> TRUE, val |-> s, exc |-> "none"]

RaiseStr(e) == [ok |-> FALSE, val |-> <<>>, exc |-> e]

(***************************************************************************)
(* NumConv                                                                 *)
(***************************************************************************)
\* a number given to a parameter documented as integer: num / den
Num(n) == [num |-> n, den |-> 1]

\* int(x) != x
NotIntegral(x) == x.num % x.den # 0

\* dict(zip(alphabet, range(len(alphabet)))): a later duplicate overwrites
cached_map_of(alphabet) ==
  [c \in Range(alphabet) |->
     LET at == {i \in 0..(Len(alphabet) - 1) : alphabet[i + 1] = c}
     IN CHOOSE i \in at : \A j \in at : j <= i]

\* cached_map_len counting every position of the alphabet as a key of its
\* own, so that line 44 never sees a difference
cached_map_lenPositions(alphabet) == Len(alphabet)

\* len(self.cached_map): the number of distinct keys of the dict
cached_map_len(alphabet) == Cardinality(Range(alphabet))

NoCodec == [radix |-> 0, alphabet |-> <<>>, cached_map |-> <<>>]

\* NumConvInit with the lower limit of line 38 off by one ('1 <= radix')
NumConvInitLowLimit(radix, alphabet) ==
  IF NotIntegral(radix)
    THEN [ok |-> FALSE, exc |-> "TypeError", codec |-> NoCodec]
  ELSE IF ~(1 <= radix.num /\ radix.num <= Len(alphabet))
    THEN [ok |-> FALSE, exc |-> "ValueError", codec |-> NoCodec]
  ELSE IF cached_map_len(alphabet) # Len(alphabet)
    THEN [ok |-> FALSE, exc |-> "ValueError", codec |-> NoCodec]
  ELSE [ok |-> TRUE, exc |-> "none",
        codec |-> [radix |-> radix.num, alphabet |-> alphabet,
                   cached_map |-> cached_map_of(alphabet)]]

\* NumConv.__init__: the codec built, or the exception raised
NumConvInit(radix, alphabet) ==
  IF NotIntegral(radix)
    THEN [ok |-> FALSE, exc |-> "TypeError", codec |-> NoCodec]
  ELSE IF ~(2 <= radix.num /\ radix.num <= Len(alphabet))
    THEN [ok |-> FALSE, exc |-> "ValueError", codec |-> NoCodec]
  ELSE IF cached_map_len(alphabet) # Len(alphabet)
    THEN [ok |-> FALSE, exc |-> "ValueError", codec |-> NoCodec]
  ELSE [ok |-> TRUE, exc |-> "none",
        codec |-> [radix |-> radix.num, alphabet |-> alphabet,
                   cached_map |-> cached_map_of(alphabet)]]

\* alphabet[:radix].lower() == BASE85[:radix].lower()
CanonicalPrefix(radix, alphabet) ==
  Lower(Prefix(alphabet, radix)) = Lower(Prefix(BASE85, radix))

\* int2str line 84-85: the native formatter is used
Int2strNative(self) ==
  /\ self.radix \in {8, 10, 16}
  /\ CanonicalPrefix(self.radix, self.alphabet)

\* str2int line 126: the native parser is used
Str2intNative(self) ==
  /\ self.radix <= 36
  /\ CanonicalPrefix(self.radix, self.alphabet)

\* '%o' % num, '%d' % num, '%x' % num for num >= 0: lower-case digits,
\* most significant first, '0' for 0
RECURSIVE PyFormat(_, _)
PyFormat(num, radix) ==
  LET d == LowerLetters
      sym(k) == IF k < 10 THEN Digits[k + 1] ELSE d[k - 9]
  IN IF num < radix THEN <<sym(num)>>
     ELSE PyFormat(num \div radix, radix) \o <<sym(num % radix)>>

\* Int2strLoop leaving the loop one division early ('num <= radix')
RECURSIVE Int2strLoopEarlyBreak(_, _, _, _)
Int2strLoopEarlyBreak(num, radix, alphabet, ret) ==
  LET ret1 == <<alphabet[(num % radix) + 1]>> \o ret
  IN IF num <= radix THEN ret1
     ELSE Int2strLoopEarlyBreak(num \div radix, radix, alphabet, ret1)

\* the while loop of int2str, lines 87-93
RECURSIVE Int2strLoop(_, _, _, _)
Int2strLoop(num, radix, alphabet, ret) ==
  LET ret1 == <<alphabet[(num % radix) + 1]>> \o ret
  IN IF num < radix THEN ret1
     ELSE Int2strLoop(num \div radix, radix, alphabet, ret1)

\* int2str_int without the .upper() of line 86
int2str_intNoUpper(self, num) ==
  IF num < 0 THEN RaiseStr("ValueError")
  ELSE IF Int2strNative(self)
    THEN RetStr(PyFormat(num, self.radix))
  ELSE RetStr(Int2strLoop(num, self.radix, self.alphabet, <<>>))

\* NumConv.int2str for an integral argument
int2str_int(self, num) ==
  IF num < 0 THEN RaiseStr("ValueError")
  ELSE IF Int2strNative(self)
    THEN RetStr(Upper(PyFormat(num, self.radix)))
  ELSE RetStr(Int2strLoop(num, self.radix, self.alphabet, <<>>))

\* NumConv_int2str with the checks of lines 79 and 81 in the other order
NumConv_int2strSignFirst(self, x) ==
  IF x.num < 0 THEN RaiseStr("ValueError")
  ELSE IF NotIntegral(x) THEN RaiseStr("TypeError")
  ELSE int2str_int(self, x.num)

\* NumConv.int2str
NumConv_int2str(self, x) ==
  IF NotIntegral(x) THEN RaiseStr("TypeError")
  ELSE int2str_int(self, x.num)

\* digit value of a character for the native parser: 0-9, a-z, A-Z
DigitValue(c) ==
  IF c \in 48..57 THEN c - 48
  ELSE IF LowerChar(c) \in 97..122 THEN LowerChar(c) - 87
  ELSE 99

\* isspace(): tab, newline, vertical tab, form feed, carriage return, space
IsSpace(c) == c \in {9, 10, 11, 12, 13, 32}

RECURSIVE LStrip(_)
LStrip(s) == IF Len(s) > 0 /\ IsSpace(s[1]) THEN LStrip(Tail(s)) ELSE s

RECURSIVE RStrip(_)
RStrip(s) ==
  IF Len(s) > 0 /\ IsSpace(s[Len(s)]) THEN RStrip(SubSeq(s, 1, Len(s) - 1))
  ELSE s

\* the fold acc = acc * radix + digit over a string of valid digits
RECURSIVE DigitsValue(_, _, _)
DigitsValue(s, radix, acc) ==
  IF Len(s) = 0 THEN acc
  ELSE DigitsValue(Tail(s), radix, acc * radix + DigitValue(s[1]))

\* the letter of the base prefix the native parser skips: 0x, 0o, 0b
PrefixLetter(radix) ==
  IF radix = 16 THEN 120 ELSE IF radix = 8 THEN 111
  ELSE IF radix = 2 THEN 98 ELSE 0

\* the built-in int(s, radix) of line 127, for 2 <= radix <= 36: surrounding
\* whitespace, an optional sign, an optional base prefix, then one or more
\* digits in either case
PyInt(s, radix) ==
  LET t == RStrip(LStrip(s))
      signed == Len(t) > 0 /\ t[1] \in {43, 45}
      u == IF signed THEN Tail(t) ELSE t
      prefixed == /\ PrefixLetter(radix) # 0
                  /\ Len(u) > 2
                  /\ u[1] = 48
                  /\ LowerChar(u[2]) = PrefixLetter(radix)
                  /\ DigitValue(u[3]) < radix
      d == IF prefixed THEN SubSeq(u, 3, Len(u)) ELSE u
      valid == /\ Len(d) > 0
               /\ \A i \in 1..Len(d) : DigitValue(d[i]) < radix
      v == DigitsValue(d, radix, 0)
  IN IF ~valid THEN Raise("ValueError")
     ELSE IF signed /\ t[1] = 45 THEN Ret(0 - v) ELSE Ret(v)

\* the for loop of str2int, lines 128-135
RECURSIVE Str2intLoop(_, _, _)
Str2intLoop(self, num, ret) ==
  IF Len(num) = 0 THEN Ret(ret)
  ELSE IF num[1] \notin Range(Prefix(self.alphabet, self.radix))
    THEN Raise("ValueError")
  ELSE Str2intLoop(self, Tail(num),
                   ret * self.radix + self.cached_map[num[1]])

\* NumConv.str2int
NumConv_str2int(self, num) ==
  IF Str2intNative(self) THEN PyInt(num, self.radix)
  ELSE Str2intLoop(self, num, 0)

\* SelfAfterCall keeping the truncated alphabet of line 129 in self
SelfAfterCallTruncated(self) ==
  [self EXCEPT !.alphabet = Prefix(self.alphabet, self.radix)]

\* the codec after a call of int2str or str2int: lines 83 and 125 copy
\* radix and alphabet into locals, line 134 reads cached_map, and nothing
\* in lines 79-93 and 125-135 assigns to self
SelfAfterCall(self) == self

\* the module-level helpers int2str / str2int: build a codec, convert
int2str(num, radix, alphabet) ==
  LET c == NumConvInit(radix, alphabet)
  IN IF c.ok THEN NumConv_int2str(c.codec, num) ELSE RaiseStr(c.exc)

str2int(num, radix, alphabet) ==
  LET c == NumConvInit(radix, alphabet)
  IN IF c.ok THEN NumConv_str2int(c.codec, num) ELSE Raise(c.exc)

(***************************************************************************)
(* State.                                                                  *)
(*   conv  the NumConv object under test: construction outcome and fields  *)
(*   call  the int2str / str2int call in progress on it and its outcome    *)
(*   src   the argument of the previous call when this call's argument is  *)
(*         the previous call's result                                      *)
(*   smp   the random_in_range call: arguments, draw, outcome              *)
(*   alloc the get_unique_id / get_unique_id_str / get_random_id call      *)
(*   cls   the class monkeypatch_method works on: the named attribute and  *)
(*         its _old_<name> attribute                                       *)
(*   cp    an instance with a TTL cached_property: its _cache, the clock   *)
(*   conc  two concurrent get_unique_id calls and the set they share       *)
(*   lock  the cache entry of a mutually_exclusive lock and the processes  *)
(*         calling a function decorated with it                            *)
(*   gen   the cache generation entry of django/cache.py                   *)
(*   memo  a naive_memoize method and the instances it is called on        *)
(*   fx    models.get_model while load_fixture runs                        *)
(***************************************************************************)
VARIABLES conv, call, src, smp, alloc, cls, cp, conc, lock, gen, memo, fx

vars == <<conv, call, src, smp, alloc, cls, cp, conc, lock, gen, memo, fx>>

\* the state of mcutils/__init__.py and of decorators.cached_property
core == <<conv, call, src, smp, alloc, cls, cp, conc>>

\* the state of django/lock.py, django/cache.py, naive_memoize and
\* django/models.py
ext == <<lock, gen, memo, fx>>

\* the state outside mcutils/__init__.py's codec, sampler and allocator
misc == <<cls, cp, conc, ext>>

(***************************************************************************)
(* Inputs of the codec.                                                    *)
(***************************************************************************)
\* '0123456789abcdef'
HexLower == Lower(BASE16)

\* 'rofl', the custom alphabet of the int2str docstring
Rofl == <<114, 111, 102, 108>>

\* '01'
Binary == <<48, 49>>

\* 'roflo': a repeated symbol
Dup == <<114, 111, 102, 108, 111>>

\* 'roflzz': the repeated symbol lies past the first four
DupTail == <<114, 111, 102, 108, 122, 122>>

CodecAlphabets == {BASE85, HexLower, Rofl, Binary, BASE64, Dup, DupTail}

RadixInputs ==
  {Num(k) : k \in {-1, 0, 1, 2, 3, 4, 5, 8, 10, 11, 16, 17,
                   36, 37, 62, 64, 85, 86}}
    \cup {[num |-> 5, den |-> 2]}

\* the characters the strings handed to str2int are made of:
\* ' ', '-', '0', '1', 'A', 'a', 'f', 'o', 'x'
StrChars == {32, 45, 48, 49, 65, 97, 102, 111, 120}

StrInputs == UNION {[1..n -> StrChars] : n \in 0..MaxLen}

\* the arguments of int2str: integers from -1 on, and 5/2 and -5/2
NumInputs ==
  {Num(k) : k \in -1..MaxNum}
    \cup {[num |-> 5, den |-> 2], [num |-> -5, den |-> 2]}

NoCall == [op |-> "none", n |-> Num(0), s |-> <<>>, res |-> Ret(0)]

NoSrc == [has |-> FALSE, n |-> Num(0), s |-> <<>>]

NewConv ==
  [state |-> "new", radix |-> Num(0), alphabet |-> <<>>, exc |-> "none",
   self |-> NoCodec]

(***************************************************************************)
(* Actions of the codec.                                                   *)
(***************************************************************************)
\* NumConv(radix, alphabet)
Construct ==
  /\ conv.state = "new"
  /\ \E radix \in RadixInputs, alphabet \in CodecAlphabets :
       LET c == NumConvInit(radix, alphabet)
       IN conv' = [state |-> IF c.ok THEN "built" ELSE "failed",
                   radix |-> radix, alphabet |-> alphabet, exc |-> c.exc,
                   self |-> c.codec]
  /\ UNCHANGED <<call, src, smp, alloc, misc>>

\* conv.int2str(x) on a fresh argument
CallInt2str ==
  /\ conv.state = "built"
  /\ call.op = "none"
  /\ \E x \in NumInputs :
       call' = [op |-> "int2str", n |-> x, s |-> <<>>,
                res |-> NumConv_int2str(conv.self, x)]
  /\ src' = NoSrc
  /\ conv' = [conv EXCEPT !.self = SelfAfterCall(conv.self)]
  /\ UNCHANGED <<smp, alloc, misc>>

\* conv.str2int(s) on a fresh argument
CallStr2int ==
  /\ conv.state = "built"
  /\ call.op = "none"
  /\ \E s \in StrInputs :
       call' = [op |-> "str2int", n |-> Num(0), s |-> s,
                res |-> NumConv_str2int(conv.self, s)]
  /\ src' = NoSrc
  /\ conv' = [conv EXCEPT !.self = SelfAfterCall(conv.self)]
  /\ UNCHANGED <<smp, alloc, misc>>

\* conv.str2int(conv.int2str(n)): decode the string just produced
DecodeResult ==
  /\ conv.state = "built"
  /\ call.op = "int2str"
  /\ call.res.ok
  /\ ~src.has
  /\ call' = [op |-> "str2int", n |-> Num(0), s |-> call.res.val,
              res |-> NumConv_str2int(conv.self, call.res.val)]
  /\ src' = [has |-> TRUE, n |-> call.n, s |-> <<>>]
  /\ conv' = [conv EXCEPT !.self = SelfAfterCall(conv.self)]
  /\ UNCHANGED <<smp, alloc, misc>>

\* conv.int2str(conv.str2int(s)): encode the integer just produced
EncodeResult ==
  /\ conv.state = "built"
  /\ call.op = "str2int"
  /\ call.res.ok
  /\ ~src.has
  /\ call' = [op |-> "int2str", n |-> Num(call.res.val), s |-> <<>>,
              res |-> NumConv_int2str(conv.self, Num(call.res.val))]
  /\ src' = [has |-> TRUE, n |-> Num(0), s |-> call.s]
  /\ conv' = [conv EXCEPT !.self = SelfAfterCall(conv.self)]
  /\ UNCHANGED <<smp, alloc, misc>>

\* the caller takes the outcome; the codec is ready for the next call
CallDone ==
  /\ call.op # "none"
  /\ call' = NoCall
  /\ src' = NoSrc
  /\ UNCHANGED <<conv, smp, alloc, misc>>

(***************************************************************************)
(* random_in_range                                                         *)
(***************************************************************************)
\* numbits(x): x.bit_length(), the number of bits of abs(x)
RECURSIVE BitLength(_)
BitLength(x) ==
  IF x < 0 THEN BitLength(0 - x)
  ELSE IF x = 0 THEN 0
  ELSE 1 + BitLength(x \div 2)

\* 2L ** 64 - 1, with DefaultBits standing for 64
DefaultMax == 2 ^ DefaultBits - 1

\* lines 256-257: max_value after 'if not max_value'
EffectiveMax(max_value) == IF max_value = 0 THEN DefaultMax ELSE max_value

\* line 259
RandMax(max_value) == 2 ^ BitLength(EffectiveMax(max_value)) - 1

\* line 269
ValueRange(max_value, min_value) == EffectiveMax(max_value) - min_value

\* line 270 (value_range # 0)
Remainder(rand_max, value_range) == PyMod(rand_max, value_range)

\* line 271 (value_range # 0)
Bucket(rand_max, value_range) == PyFloorDiv(rand_max, value_range)

\* Accepted keeping the draw that opens the biased tail ('<=')
AcceptedInclusive(base_random, rand_max, remainder) ==
  base_random <= rand_max - remainder

\* line 273: the draw is kept
Accepted(base_random, rand_max, remainder) ==
  base_random < rand_max - remainder

\* Scaled without the division by the bucket size
ScaledNoBucket(min_value, base_random, bucket) ==
  min_value + base_random

\* line 274: the value returned for a kept draw
Scaled(min_value, base_random, bucket) ==
  min_value + PyFloorDiv(base_random, bucket)

\* one activation of random_in_range with the draw base_random:
\* it returns a value, raises (a division by zero in lines 270-271 or in
\* line 274), or calls itself again
RandomInRangeBody(max_value, min_value, base_random) ==
  LET rand_max == RandMax(max_value)
      value_range == ValueRange(max_value, min_value)
  IN IF rand_max = base_random
       THEN [kind |-> "recurse", val |-> 0, exc |-> "none"]
     ELSE IF value_range = 0
       THEN [kind |-> "raise", val |-> 0, exc |-> "ZeroDivisionError"]
     ELSE IF ~Accepted(base_random, rand_max,
                       Remainder(rand_max, value_range))
       THEN [kind |-> "recurse", val |-> 0, exc |-> "none"]
     ELSE IF Bucket(rand_max, value_range) = 0
       THEN [kind |-> "raise", val |-> 0, exc |-> "ZeroDivisionError"]
     ELSE [kind |-> "return",
           val |-> Scaled(min_value, base_random,
                          Bucket(rand_max, value_range)),
           exc |-> "none"]

SmpIdle ==
  [pc |-> "idle", arg_max |-> 0, max_value |-> 0, min_value |-> 0,
   base_random |-> 0, depth |-> 0, result |-> 0, exc |-> "none"]

MaxInputs == (0 - 3)..MaxBound

MinInputs == (0 - MaxBound)..MaxBound

\* the state after one activation
SmpAfter(arg_max, max_value, min_value, base_random, depth) ==
  LET o == RandomInRangeBody(max_value, min_value, base_random)
  IN [pc |-> IF o.kind = "return" THEN "returned"
             ELSE IF o.kind = "raise" THEN "raised" ELSE "retry",
      arg_max |-> arg_max, max_value |-> EffectiveMax(max_value),
      min_value |-> min_value, base_random |-> base_random,
      depth |-> depth, result |-> o.val, exc |-> o.exc]

\* random_in_range(max_value, min_value), the outer call
RandomInRange ==
  /\ smp.pc = "idle"
  /\ \E max_value \in MaxInputs, min_value \in MinInputs :
       \E base_random \in 0..RandMax(max_value) :
          smp' = SmpAfter(max_value, max_value, min_value, base_random, 0)
  /\ UNCHANGED <<conv, call, src, alloc, misc>>

\* lines 266 and 275: the recursive call with the same bounds
RandomInRangeRetry ==
  /\ smp.pc = "retry"
  /\ smp.depth < MaxDepth
  /\ \E base_random \in 0..RandMax(smp.max_value) :
       smp' = SmpAfter(smp.arg_max, smp.max_value, smp.min_value,
                       base_random, smp.depth + 1)
  /\ UNCHANGED <<conv, call, src, alloc, misc>>

(***************************************************************************)
(* _random, get_random_id, get_random_id_str                               *)
(***************************************************************************)
\* ''.join(chr(i) for i in range(256))
ByteTable == [i \in 1..256 |-> i - 1]

\* Random reading the bytes least significant first
RandomLittleEndian(urandom) ==
  str2int([i \in 1..Len(urandom) |-> urandom[Len(urandom) + 1 - i]],
          Num(256), ByteTable)

\* _random(bytes) for the string os.urandom delivered
Random(urandom) == str2int(urandom, Num(256), ByteTable)

\* the byte values the entropy source delivers in the model
ByteInputs == {0, 1, 255}

\* os.urandom(RANDOM_ID_SOURCE_BYTES)
UrandomInputs == [1..SourceBytes -> ByteInputs]

\* get_random_id(): the bytes os.urandom delivers and the integer made of
\* them, for every delivery of the model
RandomDraws ==
  {[urandom |-> u, n |-> Random(u).val] : u \in UrandomInputs}

\* alphabet = None, '' : 'if not alphabet'
NoAlphabet == <<>>

\* lines 285-286 and 316-317
AlphabetOrDefault(alphabet) == IF alphabet = NoAlphabet THEN BASE62 ELSE alphabet

\* get_random_id_str(alphabet) for the integer n that _random returned
RandomIdStr(n, alphabet) ==
  int2str(Num(n), Num(Len(AlphabetOrDefault(alphabet))),
          AlphabetOrDefault(alphabet))

(***************************************************************************)
(* get_unique_id, get_unique_id_str                                        *)
(*                                                                         *)
(* A candidate is [n, s]: the integer drawn and, in the string variant,    *)
(* the string made of it (s = <<>> in the integer variant).  The           *)
(* argument is_unique is [kind, k, usedN, usedS]:                          *)
(*   "none"   not callable (None, the default)                             *)
(*   "notin"  lambda c: c not in used_set                                  *)
(*   "kth"    rejects its first k - 1 calls and accepts from the k-th on   *)
(*   "raises" rejects its first k - 1 calls and raises on the k-th         *)
(*   "never"  lambda c: False                                              *)
(***************************************************************************)
Cand(n, s) == [n |-> n, s |-> s]

\* callable(is_unique), lines 298 and 318
Callable(pred) == pred.kind # "none"

\* the answer of is_unique(id) on its callno-th call, when it gives one
IsUnique(pred, variant, id, callno) ==
  IF pred.kind = "kth" THEN callno >= pred.k
  ELSE IF pred.kind \in {"raises", "never"} THEN FALSE
  ELSE IF variant = "int" THEN id.n \notin pred.usedN
  ELSE id.s \notin pred.usedS

\* is_unique(id) on its callno-th call: an answer or an exception
CallIsUnique(pred, variant, id, callno) ==
  IF pred.kind = "raises" /\ callno >= pred.k
    THEN [ok |-> FALSE, val |-> FALSE, exc |-> "PredicateError"]
  ELSE [ok |-> TRUE, val |-> IsUnique(pred, variant, id, callno),
        exc |-> "none"]

\* LoopContinues with the 'not' dropped
LoopContinuesInverted(answer) == answer

\* lines 303 and 323: 'while not is_unique(id)'
LoopContinues(answer) == ~answer

\* LoopStep with the predicate's exception caught and taken for 'in use'
LoopStepSwallows(outcome) ==
  IF ~outcome.ok THEN "again"
  ELSE IF LoopContinues(outcome.val) THEN "again"
  ELSE "return"

\* lines 303-305 and 323-325 on the outcome of is_unique(id): nothing
\* catches an exception of the predicate
LoopStep(outcome) ==
  IF ~outcome.ok THEN "raise"
  ELSE IF LoopContinues(outcome.val) THEN "again"
  ELSE "return"

\* line 322: the first candidate of get_unique_id_str
FirstIdStr(n, alphabet) == RandomIdStr(n, NoAlphabet)

\* line 324: the later candidates of get_unique_id_str
NextIdStr(n, alphabet) == RandomIdStr(n, alphabet)

\* UuidIdStr with the alphabet argument dropped
UuidIdStrDefault(u, alphabet) ==
  int2str(Num(u), Num(Len(BASE62)), BASE62)

\* line 320: int2str(uuid.uuid4().int, len(alphabet), alphabet) after the
\* default of lines 316-317
UuidIdStr(u, alphabet) ==
  int2str(Num(u), Num(Len(AlphabetOrDefault(alphabet))),
          AlphabetOrDefault(alphabet))

\* uuid.uuid4().int: a 128 bit integer whose version bits are set, so it
\* lies above every integer _random makes of its bytes
UuidInputs == {256 ^ SourceBytes + k : k \in {0, 1, 255}}

AllocIdle ==
  [pc |-> "idle", variant |-> "int", alphabet |-> NoAlphabet,
   pred |-> [kind |-> "kth", k |-> 1, usedN |-> {}, usedS |-> {}],
   id |-> Cand(0, <<>>), calls |-> 0, draws |-> 0, uuids |-> 0,
   urandom |-> <<>>,
   checked |-> Cand(0, <<>>), answer |-> FALSE, exc |-> "none"]

\* the sets of integers already in use that "notin" predicates are built of
UsedInputs == {{}, {0, 1}, {0, 1, 255, 256, 257, 511}}

\* a single symbol: no codec can be built of it
Single == <<97>>

AllocAlphabets == {NoAlphabet, Binary, Rofl, HexLower, Single}

\* the strings made for every alphabet and every draw of the model: the
\* candidate line 322 makes, the candidate line 324 makes, and the result
\* of get_random_id_str(alphabet)
StrDraws ==
  {[alphabet |-> a, urandom |-> d.urandom, n |-> d.n,
    first |-> FirstIdStr(d.n, a), next |-> NextIdStr(d.n, a),
    rid |-> RandomIdStr(d.n, a)] :
      a \in AllocAlphabets, d \in RandomDraws}

StrDrawsOf(alphabet) == {d \in StrDraws : d.alphabet = alphabet}

\* the strings line 320 makes for every alphabet and every uuid of the model
UuidDraws ==
  {[alphabet |-> a, u |-> u, s |-> UuidIdStr(u, a)] :
      a \in AllocAlphabets, u \in UuidInputs}

UuidDrawsOf(alphabet) == {d \in UuidDraws : d.alphabet = alphabet}

\* the strings the integers of used stand for, in either alphabet in play
UsedStrings(used, alphabet) ==
  {RandomIdStr(n, NoAlphabet).val : n \in used}
    \cup IF RandomIdStr(0, alphabet).ok
           THEN {RandomIdStr(n, alphabet).val : n \in used} ELSE {}

PredInputs(alphabet) ==
  {[kind |-> "kth", k |-> k, usedN |-> {}, usedS |-> {}] : k \in 1..MaxCalls}
    \cup {[kind |-> "raises", k |-> k, usedN |-> {}, usedS |-> {}] :
            k \in 1..MaxCalls}
    \cup {[kind |-> "notin", k |-> 0, usedN |-> u,
           usedS |-> UsedStrings(u, alphabet)] : u \in UsedInputs}
    \cup {[kind |-> "none", k |-> 0, usedN |-> {}, usedS |-> {}],
          [kind |-> "never", k |-> 0, usedN |-> {}, usedS |-> {}]}

\* get_random_id(), lines 278-280
GetRandomId ==
  /\ alloc.pc = "idle"
  /\ \E d \in RandomDraws :
       alloc' = [alloc EXCEPT !.pc = "returned", !.variant = "random_id",
                              !.pred = [kind |-> "none", k |-> 0,
                                        usedN |-> {}, usedS |-> {}],
                              !.id = Cand(d.n, <<>>), !.draws = 1,
                              !.urandom = d.urandom]
  /\ UNCHANGED <<conv, call, src, smp, misc>>

\* get_random_id_str(alphabet), lines 283-288
GetRandomIdStr ==
  /\ alloc.pc = "idle"
  /\ \E alphabet \in AllocAlphabets :
       \E d \in StrDrawsOf(alphabet) :
          alloc' = [alloc EXCEPT
                      !.pc = IF d.rid.ok THEN "returned" ELSE "raised",
                      !.variant = "random_id_str",
                      !.alphabet = alphabet,
                      !.pred = [kind |-> "none", k |-> 0,
                                usedN |-> {}, usedS |-> {}],
                      !.id = Cand(d.n, d.rid.val), !.draws = 1,
                      !.urandom = d.urandom, !.exc = d.rid.exc]
  /\ UNCHANGED <<conv, call, src, smp, misc>>

\* get_unique_id(is_unique): lines 298-300 when is_unique is not callable,
\* line 302 when it is
GetUniqueId ==
  /\ alloc.pc = "idle"
  /\ \E is_unique \in PredInputs(NoAlphabet) :
       IF ~Callable(is_unique)
         THEN \E u \in UuidInputs :
                alloc' = [alloc EXCEPT !.pc = "returned", !.variant = "int",
                                       !.alphabet = NoAlphabet,
                                       !.pred = is_unique,
                                       !.id = Cand(u, <<>>), !.uuids = 1]
         ELSE \E d \in RandomDraws :
                alloc' = [alloc EXCEPT !.pc = "loop", !.variant = "int",
                                       !.alphabet = NoAlphabet,
                                       !.pred = is_unique,
                                       !.id = Cand(d.n, <<>>), !.draws = 1,
                                       !.urandom = d.urandom]
  /\ UNCHANGED <<conv, call, src, smp, misc>>

\* get_unique_id_str(is_unique, alphabet): lines 316-320 when is_unique is
\* not callable, lines 316-317 and 322 when it is
GetUniqueIdStr ==
  /\ alloc.pc = "idle"
  /\ \E alphabet \in AllocAlphabets :
       \E is_unique \in PredInputs(alphabet) :
          IF ~Callable(is_unique)
            THEN \E d \in UuidDrawsOf(alphabet) :
                   alloc' = [alloc EXCEPT
                               !.pc = IF d.s.ok THEN "returned" ELSE "raised",
                               !.variant = "str",
                               !.alphabet = alphabet, !.pred = is_unique,
                               !.id = Cand(d.u, d.s.val), !.uuids = 1,
                               !.exc = d.s.exc]
            ELSE \E d \in StrDrawsOf(alphabet) :
                   alloc' = [alloc EXCEPT
                               !.pc = IF d.first.ok THEN "loop" ELSE "raised",
                               !.variant = "str",
                               !.alphabet = alphabet, !.pred = is_unique,
                               !.id = Cand(d.n, d.first.val), !.draws = 1,
                               !.urandom = d.urandom,
                               !.exc = d.first.exc]
  /\ UNCHANGED <<conv, call, src, smp, misc>>

\* one evaluation of the while condition, lines 303 / 323, followed by the
\* return of line 305 / 325, by the loop body of line 304 / 324, or by the
\* predicate's exception leaving the function
UniqueIdLoop ==
  /\ alloc.pc = "loop"
  /\ alloc.calls < MaxCalls
  /\ LET outcome == CallIsUnique(alloc.pred, alloc.variant, alloc.id,
                                 alloc.calls + 1)
         seen == [alloc EXCEPT !.calls = alloc.calls + 1,
                               !.checked = alloc.id,
                               !.answer = outcome.val]
     IN IF LoopStep(outcome) = "return"
          THEN alloc' = [seen EXCEPT !.pc = "returned"]
        ELSE IF LoopStep(outcome) = "raise"
          THEN alloc' = [seen EXCEPT !.pc = "raised", !.exc = outcome.exc]
        ELSE \E d \in StrDrawsOf(alloc.alphabet) :
               LET s == IF alloc.variant = "int" THEN RetStr(<<>>)
                        ELSE d.next
               IN alloc' = [seen EXCEPT
                              !.pc = IF s.ok THEN "loop" ELSE "raised",
                              !.id = Cand(d.n, s.val),
                              !.draws = alloc.draws + 1,
                              !.urandom = d.urandom,
                              !.exc = s.exc]
  /\ UNCHANGED <<conv, call, src, smp, misc>>

(***************************************************************************)
(* monkeypatch_method                                                      *)
(***************************************************************************)
(* Functions are numbered; cls is the class patched: its attribute <name>  *)
(* (method), its attribute _old_<name> (old_kind, and old_list when it is  *)
(* a list), and the history of the applications made to it.                *)
(***************************************************************************)
\* getattr(cls, name, None) of an attribute that is absent or None
None == 0

\* the method the class is defined with
OriginalMethod == 1

\* the functions monkeypatch_method(cls) is applied to, all of one name
FuncInputs == {2, 3, 4}

\* what _old_<name> is when the class is defined: absent, None, an empty
\* list, or something that is no list
OldInputs == {"absent", "none", "list", "other"}

NoClass ==
  [state |-> "undefined", method |-> None, old_kind |-> "absent",
   old_list |-> <<>>, had_method |-> FALSE, had_old |-> "absent",
   funcs |-> <<>>, last |-> "none", applied |-> 0, attempts |-> 0]

\* decorator appending the new function instead of the one it replaces
decoratorAppendsNew(c, func) ==
  LET old_func == c.method
      old_funcs_is_None == c.old_kind \in {"absent", "none"}
  IN IF old_func # None /\ ~old_funcs_is_None /\ c.old_kind # "list"
       THEN [c EXCEPT !.last = "KeyError"]
     ELSE IF old_func # None
       THEN [c EXCEPT !.old_kind = "list",
                      !.old_list = (IF old_funcs_is_None THEN <<>>
                                    ELSE c.old_list) \o <<func>>,
                      !.method = func, !.last = "ok"]
     ELSE [c EXCEPT !.method = func, !.last = "ok"]

\* decorator(func), lines 407-423: the class afterwards, and in last
\* whether func was returned ("ok") or KeyError raised
decorator(c, func) ==
  LET old_func == c.method
      old_funcs_is_None == c.old_kind \in {"absent", "none"}
  IN IF old_func # None /\ ~old_funcs_is_None /\ c.old_kind # "list"
       THEN [c EXCEPT !.last = "KeyError"]
     ELSE IF old_func # None
       THEN [c EXCEPT !.old_kind = "list",
                      !.old_list = (IF old_funcs_is_None THEN <<>>
                                    ELSE c.old_list) \o <<old_func>>,
                      !.method = func, !.last = "ok"]
     ELSE [c EXCEPT !.method = func, !.last = "ok"]

\* the class statement: the class is defined with or without the method
\* and with some _old_<name>
DefineClass ==
  /\ cls.state = "undefined"
  /\ \E method \in {None, OriginalMethod}, old \in OldInputs :
       cls' = [NoClass EXCEPT !.state = "defined", !.method = method,
                              !.old_kind = old, !.had_method = method # None,
                              !.had_old = old]
  /\ UNCHANGED <<conv, call, src, smp, alloc, cp, conc, ext>>

\* @monkeypatch_method(cls) applied to one more function of the name
Patch ==
  /\ cls.state = "defined"
  /\ cls.attempts < MaxPatches
  /\ \E func \in FuncInputs :
       LET c == decorator(cls, func)
       IN cls' = [c EXCEPT !.attempts = cls.attempts + 1,
                           !.applied = IF c.last = "ok" THEN cls.applied + 1
                                       ELSE cls.applied,
                           !.funcs = IF c.last = "ok"
                                       THEN cls.funcs \o <<func>>
                                     ELSE cls.funcs]
  /\ UNCHANGED <<conv, call, src, smp, alloc, cp, conc, ext>>

(***************************************************************************)
(* decorators.cached_property                                              *)
(*                                                                         *)
(* cp is one instance with one property wrapped by cached_property(ttl):   *)
(* whether the instance has a _cache attribute (has_cache), whether        *)
(* _cache has an entry for the property (has_entry) and the entry          *)
(* (value, last_update); the clock (now), the number of getter calls, and  *)
(* in read what the last read of the property saw and did.                 *)
(***************************************************************************)
\* the ttl argument of __init__: never expire (0, and a negative one), one
\* and two seconds
TtlInputs == {-1, 0, 1, 2}

NoRead ==
  [done |-> FALSE, t |-> 0, called |-> FALSE, value |-> 0,
   had_entry |-> FALSE, old_value |-> 0, old_update |-> 0,
   new_value |-> 0, new_update |-> 0, after_del |-> FALSE]

NoProperty ==
  [state |-> "new", ttl |-> 0, has_cache |-> FALSE, has_entry |-> FALSE,
   value |-> 0, last_update |-> 0, now |-> 0, calls |-> 0, reads |-> 0,
   deleted |-> FALSE, read |-> NoRead]

\* Expired with '>=' for '>'
ExpiredAtTtl(ttl, now, last_update) == ttl > 0 /\ now - last_update >= ttl

\* line 54: self.ttl > 0 and now - last_update > self.ttl
Expired(ttl, now, last_update) == ttl > 0 /\ now - last_update > ttl

\* self.fget(inst): the getter returns a new value on every call
fget(c) == c.calls + 1

\* __get__(inst, owner) at time now, lines 49-63: the instance afterwards;
\* value holds what was returned
cached_property_get(c, now) ==
  IF c.has_cache /\ c.has_entry /\ ~Expired(c.ttl, now, c.last_update)
    THEN c
  ELSE [c EXCEPT !.calls = c.calls + 1, !.has_cache = TRUE,
                 !.has_entry = TRUE, !.value = fget(c),
                 !.last_update = now]

\* the class is defined with @cached_property(ttl=...) and an instance is
\* made, with or without a _cache attribute of its own
MakeProperty ==
  /\ cp.state = "new"
  /\ \E ttl \in TtlInputs, has_cache \in BOOLEAN :
       cp' = [NoProperty EXCEPT !.state = "made", !.ttl = ttl,
                                !.has_cache = has_cache]
  /\ UNCHANGED <<conv, call, src, smp, alloc, cls, conc, ext>>

\* instance.<name> is read at some time t not before the last read
ReadProperty ==
  /\ cp.state = "made"
  /\ cp.reads < MaxReads
  /\ \E t \in cp.now..MaxTime :
       LET c == cached_property_get(cp, t)
       IN cp' = [c EXCEPT
                   !.now = t, !.reads = cp.reads + 1, !.deleted = FALSE,
                   !.read = [done |-> TRUE, t |-> t,
                             called |-> c.calls # cp.calls,
                             value |-> c.value,
                             had_entry |-> cp.has_cache /\ cp.has_entry,
                             old_value |-> cp.value,
                             old_update |-> cp.last_update,
                             new_value |-> c.value,
                             new_update |-> c.last_update,
                             after_del |-> cp.deleted]]
  /\ UNCHANGED <<conv, call, src, smp, alloc, cls, conc, ext>>

\* del instance._cache[<property name>] on an entry that exists
DelEntry ==
  /\ cp.state = "made"
  /\ cp.has_cache /\ cp.has_entry
  /\ cp' = [cp EXCEPT !.has_entry = FALSE, !.deleted = TRUE]
  /\ UNCHANGED <<conv, call, src, smp, alloc, cls, conc, ext>>

(***************************************************************************)
(* Two concurrent calls of get_unique_id.                                  *)
(*                                                                         *)
(* Two callers run get_unique_id(lambda c: c not in used) over one shared  *)
(* set used, and each adds the ID it was returned to the set afterwards.   *)
(* conc.p[i] is caller i: where it stands, the candidate in hand, the      *)
(* calls it made of the predicate and, once it has returned, whether the   *)
(* other caller's ID was in the set when the predicate accepted.           *)
(***************************************************************************)
Callers == 1..2

Other(i) == 3 - i

ConcIdle ==
  [started |-> FALSE, used |-> {},
   p |-> [i \in Callers |->
            [pc |-> "idle", id |-> 0, calls |-> 0, saw_other |-> FALSE]]]

\* the predicate both callers pass: lambda c: c not in used
SharedPred(used) ==
  [kind |-> "notin", k |-> 0, usedN |-> used, usedS |-> {}]

\* the set of IDs in use when the two calls begin
ConcStart ==
  /\ ~conc.started
  /\ \E used \in UsedInputs :
       conc' = [conc EXCEPT !.started = TRUE, !.used = used]
  /\ UNCHANGED <<conv, call, src, smp, alloc, cls, cp, ext>>

\* caller i enters get_unique_id and draws its first candidate, line 302
ConcCall ==
  /\ conc.started
  /\ \E i \in Callers :
       /\ conc.p[i].pc = "idle"
       /\ \E d \in RandomDraws :
            conc' = [conc EXCEPT !.p[i].pc = "loop", !.p[i].id = d.n]
  /\ UNCHANGED <<conv, call, src, smp, alloc, cls, cp, ext>>

\* caller i evaluates the while condition of line 303 on the set as it is
\* now, and returns its candidate (line 305) or draws the next (line 304)
ConcLoop ==
  /\ \E i \in Callers :
       /\ conc.p[i].pc = "loop"
       /\ conc.p[i].calls < MaxCalls
       /\ LET outcome == CallIsUnique(SharedPred(conc.used), "int",
                                      Cand(conc.p[i].id, <<>>),
                                      conc.p[i].calls + 1)
          IN IF LoopStep(outcome) = "return"
               THEN conc' = [conc EXCEPT
                               !.p[i].pc = "returned",
                               !.p[i].calls = conc.p[i].calls + 1,
                               !.p[i].saw_other =
                                  conc.p[Other(i)].pc = "inserted"]
             ELSE \E d \in RandomDraws :
                    conc' = [conc EXCEPT
                               !.p[i].id = d.n,
                               !.p[i].calls = conc.p[i].calls + 1]
  /\ UNCHANGED <<conv, call, src, smp, alloc, cls, cp, ext>>

\* caller i, back from get_unique_id, adds the ID it got to the shared set
ConcInsert ==
  /\ \E i \in Callers :
       /\ conc.p[i].pc = "returned"
       /\ conc' = [conc EXCEPT !.p[i].pc = "inserted",
                               !.used = conc.used \cup {conc.p[i].id}]
  /\ UNCHANGED <<conv, call, src, smp, alloc, cls, cp, ext>>

(***************************************************************************)
(* django/lock.py: mutually_exclusive                                      *)
(*                                                                         *)
(* Processes call one function decorated with mutually_exclusive(lock_id)  *)
(* over one cache.  lock.entry is the cache entry of lock_id: 0 when there *)
(* is none, else the process whose add stored it.  lock.p[i] is process    *)
(* i: where it stands in wrapper ("enter" before has_key, "add" between    *)
(* has_key and add, "inside" while the wrapped function runs), the calls   *)
(* it made, how often it ran the function, how often it was refused, and   *)
(* how its last call ended.                                                *)
(***************************************************************************)
Procs == 1..2

NoLock ==
  [started |-> FALSE, fail_silently |-> FALSE, entry |-> 0,
   p |-> [i \in Procs |->
            [pc |-> "idle", calls |-> 0, runs |-> 0, refused |-> 0,
             last |-> "none"]]]

\* line 26: self.cache.has_key(self.lock_id)
has_key(entry) == entry # 0

\* line 28: cache.add stores the entry only when the key is not there
cache_add(entry, i) == IF entry = 0 THEN i ELSE entry

\* mutex_exit leaving the entry in place when the function raised
mutex_exitOnReturnOnly(entry, how) == IF how = "raised" THEN entry ELSE 0

\* __exit__, lines 30-31, run by the with statement of line 39 however
\* the block ended: cache.delete
mutex_exit(entry, how) == 0

\* lines 41-44: how wrapper ends on the MutexError of __enter__
Refusal(fail_silently) == IF fail_silently THEN "silenced" ELSE "MutexError"

\* mutually_exclusive(lock_id, fail_silently=...) decorates the function
LockSetup ==
  /\ ~lock.started
  /\ \E fail_silently \in BOOLEAN :
       lock' = [lock EXCEPT !.started = TRUE,
                            !.fail_silently = fail_silently]
  /\ UNCHANGED <<core, gen, memo, fx>>

\* a process calls the decorated function: wrapper, line 37
LockCall ==
  /\ lock.started
  /\ \E i \in Procs :
       /\ lock.p[i].pc = "idle"
       /\ lock.p[i].calls < MaxLockCalls
       /\ lock' = [lock EXCEPT !.p[i].pc = "enter",
                               !.p[i].calls = lock.p[i].calls + 1,
                               !.p[i].last = "none"]
  /\ UNCHANGED <<core, gen, memo, fx>>

\* __enter__, lines 26-27: the has_key check; on an entry MutexError is
\* raised, __exit__ is not run, and wrapper logs it and raises it again
\* or returns None
LockHasKey ==
  /\ \E i \in Procs :
       /\ lock.p[i].pc = "enter"
       /\ IF has_key(lock.entry)
            THEN lock' = [lock EXCEPT
                            !.p[i].pc = "idle",
                            !.p[i].refused = lock.p[i].refused + 1,
                            !.p[i].last = Refusal(lock.fail_silently)]
          ELSE lock' = [lock EXCEPT !.p[i].pc = "add"]
  /\ UNCHANGED <<core, gen, memo, fx>>

\* __enter__, line 28: the add, whose result is not looked at; the block
\* of line 39 is entered
LockAdd ==
  /\ \E i \in Procs :
       /\ lock.p[i].pc = "add"
       /\ lock' = [lock EXCEPT !.entry = cache_add(lock.entry, i),
                               !.p[i].pc = "inside",
                               !.p[i].runs = lock.p[i].runs + 1]
  /\ UNCHANGED <<core, gen, memo, fx>>

\* the wrapped function returns or raises, and __exit__ runs
LockExit ==
  /\ \E i \in Procs :
       /\ lock.p[i].pc = "inside"
       /\ \E how \in {"returned", "raised"} :
            lock' = [lock EXCEPT !.entry = mutex_exit(lock.entry, how),
                                 !.p[i].pc = "idle",
                                 !.p[i].last = how]
  /\ UNCHANGED <<core, gen, memo, fx>>

(***************************************************************************)
(* django/cache.py: make_cache_key, invalidate_cache                       *)
(*                                                                         *)
(* gen.entry is what memcache.get(CACHE_GENERATION_KEY) returns: 0 for     *)
(* None (no entry), else the number stored.  A key is the generation and   *)
(* the argument that go into the digest: gen.fresh are the keys computed   *)
(* since the last invalidate_cache, gen.stale those computed before it;    *)
(* gen.before and gen.after are the generations make_cache_key would use   *)
(* before and after the last invalidate_cache.                             *)
(***************************************************************************)
NoGen ==
  [started |-> FALSE, entry |-> 0, stale |-> {}, fresh |-> {},
   invalidated |-> FALSE, before |-> 0, after |-> 0]

\* the key arguments of make_cache_key
KeyInputs == {1, 2}

\* lines 7-10: the generation make_cache_key works with, which is also
\* the generation entry it leaves
GenUsed(entry) == IF entry = 0 THEN 1 ELSE entry

\* line 13: the digest of CACHE_KEY, the generation and the key, taken as
\* free of collisions
make_cache_key(entry, key) == <<GenUsed(entry), key>>

\* lines 17-22: the generation entry after invalidate_cache
invalidate_cache(entry) == IF entry = 0 THEN 1 ELSE entry + 1

\* the cache as the first call finds it: without a generation entry, or
\* with one
GenStart ==
  /\ ~gen.started
  /\ \E entry \in 0..2 :
       gen' = [gen EXCEPT !.started = TRUE, !.entry = entry]
  /\ UNCHANGED <<core, lock, memo, fx>>

\* make_cache_key(key)
MakeCacheKey ==
  /\ gen.started
  /\ \E key \in KeyInputs :
       gen' = [gen EXCEPT
                 !.entry = GenUsed(gen.entry),
                 !.fresh = gen.fresh \cup {make_cache_key(gen.entry, key)}]
  /\ UNCHANGED <<core, lock, memo, fx>>

\* the cache drops the generation entry, the case lines 8 and 18 provide
\* for; entries stored under the keys computed so far may outlive it
GenEvicted ==
  /\ gen.started
  /\ gen.entry # 0
  /\ gen' = [gen EXCEPT !.entry = 0]
  /\ UNCHANGED <<core, lock, memo, fx>>

\* invalidate_cache()
InvalidateCache ==
  /\ gen.started
  /\ gen.entry < MaxGen
  /\ gen' = [gen EXCEPT !.entry = invalidate_cache(gen.entry),
                        !.invalidated = TRUE,
                        !.before = GenUsed(gen.entry),
                        !.after = GenUsed(invalidate_cache(gen.entry)),
                        !.stale = gen.stale \cup gen.fresh,
                        !.fresh = {}]
  /\ UNCHANGED <<core, lock, memo, fx>>

(***************************************************************************)
(* decorators.naive_memoize                                                *)
(*                                                                         *)
(* memo.inst[i] is instance i: whether it has the attribute _<name> and    *)
(* the value kept there.  memo.on_method tells whether the function        *)
(* object method has an attribute _<name>.  The rest records what          *)
(* happened: the calls made, the computations of the wrapped function,     *)
(* those of each instance since the last method._invalidate(), whether an  *)
(* instance has held a value since before that invalidation without being  *)
(* called again (due), and the last call.                                  *)
(***************************************************************************)
Instances == 1..2

NoMemo ==
  [inst |-> [i \in Instances |-> [has |-> FALSE, value |-> 0]],
   on_method |-> FALSE, calls |-> 0, computed |-> 0,
   since |-> [i \in Instances |-> 0],
   due |-> [i \in Instances |-> FALSE],
   last |-> [inst |-> 0, computed |-> FALSE, was_due |-> FALSE,
             value |-> 0]]

\* function(self): the wrapped function gives a new value on every run
function(m) == m.computed + 1

\* method(self), lines 71-75, on instance i: the attributes afterwards
method(m, i) ==
  IF ~m.inst[i].has
    THEN [m EXCEPT !.inst[i] = [has |-> TRUE, value |-> function(m)],
                   !.computed = m.computed + 1]
  ELSE m

\* invalidate(), lines 77-79: hasattr and delattr on the function object
\* method, not on an instance
invalidate(m) ==
  IF m.on_method THEN [m EXCEPT !.on_method = FALSE] ELSE m

\* instance.<name>() is called
MemoCall ==
  /\ memo.calls < MaxMemoCalls
  /\ \E i \in Instances :
       LET m == method(memo, i)
       IN memo' = [m EXCEPT
                     !.calls = memo.calls + 1,
                     !.since[i] = memo.since[i]
                                    + (m.computed - memo.computed),
                     !.due[i] = FALSE,
                     !.last = [inst |-> i,
                               computed |-> m.computed # memo.computed,
                               was_due |-> memo.due[i],
                               value |-> m.inst[i].value]]
  /\ UNCHANGED <<core, lock, gen, fx>>

\* method._invalidate() is called
MemoInvalidate ==
  /\ LET m == invalidate(memo)
     IN memo' = [m EXCEPT
                   !.since = [i \in Instances |-> 0],
                   !.due = [i \in Instances |-> m.inst[i].has]]
  /\ UNCHANGED <<core, lock, gen, fx>>

(***************************************************************************)
(* django/models.py: load_fixture                                          *)
(*                                                                         *)
(* fx.get_model is the global models.get_model: 0 for Django's own         *)
(* function, k for the get_model_southern_style of the k-th call of        *)
(* load_fixture.  fx.saved is original_get_model of the call in progress,  *)
(* fx.done the calls finished and how each ended.                          *)
(***************************************************************************)
\* django.db.models.get_model as Django defines it
DjangoGetModel == 0

NoFixture ==
  [pc |-> "idle", get_model |-> DjangoGetModel, saved |-> DjangoGetModel,
   file_name |-> 0, calls |-> 0, done |-> <<>>]

\* the fixture files load_fixture is called with
FileInputs == {1, 2}

\* line 26, reached when call_command returned: the global is set back;
\* an exception of call_command leaves load_fixture from line 25
AfterLoaddata(f, how) ==
  IF how = "returned" THEN f.saved ELSE f.get_model

\* load_fixture(file_name, orm) up to the call of line 25: the global is
\* saved (line 16) and replaced (line 24)
LoadFixture ==
  /\ fx.pc = "idle"
  /\ fx.calls < MaxFixtures
  /\ \E file_name \in FileInputs :
       fx' = [fx EXCEPT !.pc = "loaddata", !.calls = fx.calls + 1,
                        !.saved = fx.get_model,
                        !.get_model = fx.calls + 1,
                        !.file_name = file_name]
  /\ UNCHANGED <<core, lock, gen, memo>>

\* call_command('loaddata', file_name) returns or raises, and load_fixture
\* ends
Loaddata ==
  /\ fx.pc = "loaddata"
  /\ \E how \in {"returned", "raised"} :
       fx' = [fx EXCEPT !.pc = "idle",
                        !.get_model = AfterLoaddata(fx, how),
                        !.done = Append(fx.done,
                                        [file_name |-> fx.file_name,
                                         how |-> how])]
  /\ UNCHANGED <<core, lock, gen, memo>>

(***************************************************************************)
(* Specifications.                                                         *)
(***************************************************************************)
Init ==
  /\ conv = NewConv
  /\ call = NoCall
  /\ src = NoSrc
  /\ smp = SmpIdle
  /\ alloc = AllocIdle
  /\ cls = NoClass
  /\ cp = NoProperty
  /\ conc = ConcIdle
  /\ lock = NoLock
  /\ gen = NoGen
  /\ memo = NoMemo
  /\ fx = NoFixture

NextCodec ==
  \/ Construct
  \/ CallInt2str
  \/ CallStr2int
  \/ DecodeResult
  \/ EncodeResult
  \/ CallDone

NextSampler ==
  \/ RandomInRange
  \/ RandomInRangeRetry

NextAlloc ==
  \/ GetRandomId
  \/ GetRandomIdStr
  \/ GetUniqueId
  \/ GetUniqueIdStr
  \/ UniqueIdLoop

NextPatch ==
  \/ DefineClass
  \/ Patch

NextProperty ==
  \/ MakeProperty
  \/ ReadProperty
  \/ DelEntry

NextConc ==
  \/ ConcStart
  \/ ConcCall
  \/ ConcLoop
  \/ ConcInsert

NextLock ==
  \/ LockSetup
  \/ LockCall
  \/ LockHasKey
  \/ LockAdd
  \/ LockExit

NextGen ==
  \/ GenStart
  \/ MakeCacheKey
  \/ GenEvicted
  \/ InvalidateCache

NextMemo ==
  \/ MemoCall
  \/ MemoInvalidate

NextFixture ==
  \/ LoadFixture
  \/ Loaddata

\* the codec: construction, then any sequence of conversions
SpecCodec == Init /\ [][NextCodec]_vars

\* one call of random_in_range with its recursive retries
SpecSampler == Init /\ [][NextSampler]_vars

\* one call of get_unique_id / get_unique_id_str
SpecAlloc == Init /\ [][NextAlloc]_vars

\* a class and the applications of monkeypatch_method to it
SpecPatch == Init /\ [][NextPatch]_vars

\* one instance and the reads of its cached property
SpecProperty == Init /\ [][NextProperty]_vars

\* two callers of get_unique_id over one set
SpecConc == Init /\ [][NextConc]_vars

\* the generation entry under make_cache_key and invalidate_cache
SpecGen == Init /\ [][NextGen]_vars

\* the instances of a class with a naive_memoize method
SpecMemo == Init /\ [][NextMemo]_vars

\* successive calls of load_fixture
SpecFixture == Init /\ [][NextFixture]_vars

\* the processes calling one mutually_exclusive function
SpecLock == Init /\ [][NextLock]_vars

\* the allocator's loop keeps running: the caller's thread is scheduled
SpecAllocFair == SpecAlloc /\ WF_vars(UniqueIdLoop)

(***************************************************************************)
(* Properties of the codec.                                                *)
(***************************************************************************)
\* the first radix symbols of the codec's alphabet
ValidSymbols(self) == Range(Prefix(self.alphabet, self.radix))

\* C1: decoding the string int2str made of an integer n >= 0 gives n back,
\* on every codec that was built, whichever of the native and manual paths
\* the two calls take.
C1_RoundTrip ==
  (call.op = "str2int" /\ src.has) =>
     (call.res.ok /\ call.res.val = src.n.num)

\* a number of two or more digits went through the manual int2str loop and
\* came back through the native parser
C1_Witness ==
  /\ call.op = "str2int" /\ src.has
  /\ src.n.num >= conv.self.radix
  /\ ~Int2strNative(conv.self) /\ Str2intNative(conv.self)
  /\ call.res.ok /\ call.res.val = src.n.num

\* C6 (as stated): str2int raises ValueError for every string holding a
\* character that is not one of the first radix symbols of the alphabet,
\* on every codec, the native-parser ones included.
C6_RejectsForeignSymbols ==
  (call.op = "str2int" /\ ~src.has
     /\ \E i \in 1..Len(call.s) : call.s[i] \notin ValidSymbols(conv.self))
   => (~call.res.ok /\ call.res.exc = "ValueError")

\* s is written in the codec's symbols without a superfluous leading zero
\* digit
CanonicalNumeral(self, s) ==
  /\ Len(s) > 0
  /\ \A i \in 1..Len(s) : s[i] \in ValidSymbols(self)
  /\ (s[1] # self.alphabet[1] \/ Len(s) = 1)

\* C9: for a string s of the codec's first radix symbols with no leading
\* zero digit (or the single zero digit), int2str(str2int(s)) is s itself,
\* upper-cased when int2str takes the native path.
C9_StringRoundTrip ==
  (call.op = "int2str" /\ src.has /\ CanonicalNumeral(conv.self, src.s)) =>
     /\ call.res.ok
     /\ call.res.val = IF Int2strNative(conv.self) THEN Upper(src.s)
                       ELSE src.s

\* a lower-case hexadecimal numeral of two digits came back in upper case
C9_Witness ==
  /\ call.op = "int2str" /\ src.has
  /\ CanonicalNumeral(conv.self, src.s)
  /\ Len(src.s) >= 2
  /\ Int2strNative(conv.self)
  /\ src.s # Upper(src.s)
  /\ call.res.val = Upper(src.s)

\* C10: the constructor fails and yields no codec when radix < 2 or
\* radix > len(alphabet), and builds the codec for every integer radix in
\* [2, len(alphabet)] when the alphabet has no repeated symbol.
C10_RadixLimits ==
  conv.state # "new" =>
    /\ (conv.radix.num < 2 * conv.radix.den
          \/ conv.radix.num > Len(conv.alphabet) * conv.radix.den)
         => (conv.state = "failed" /\ conv.exc # "none"
               /\ conv.self = NoCodec)
    /\ (conv.radix.den = 1 /\ 2 <= conv.radix.num
          /\ conv.radix.num <= Len(conv.alphabet)
          /\ Cardinality(Range(conv.alphabet)) = Len(conv.alphabet))
         => (conv.state = "built" /\ conv.self.radix = conv.radix.num
               /\ conv.self.alphabet = conv.alphabet)

\* a radix above the length of the alphabet was refused
C10_Witness ==
  /\ conv.state = "failed"
  /\ conv.radix.den = 1
  /\ conv.radix.num > Len(conv.alphabet)
  /\ conv.exc = "ValueError"

(***************************************************************************)
(* Properties of random_in_range.                                          *)
(***************************************************************************)
\* the draws out of [0, rand_max] on which random_in_range(max_value,
\* min_value) returns v
DrawsGiving(max_value, min_value, v) ==
  {b \in 0..RandMax(max_value) :
     /\ RandomInRangeBody(max_value, min_value, b).kind = "return"
     /\ RandomInRangeBody(max_value, min_value, b).val = v}

C4_InRange ==
  (smp.pc = "returned" /\ smp.min_value < smp.arg_max) =>
     (smp.min_value <= smp.result /\ smp.result <= smp.arg_max)

\* a value was returned after a rejected draw
C4_Witness ==
  /\ smp.pc = "returned"
  /\ smp.min_value < smp.arg_max
  /\ smp.depth >= 1
  /\ smp.result > smp.min_value

\* C5 (as stated): with value_range = max_value - min_value <= 0 the call
\* returns no value, and when it ends it ends with a configuration error.
C5_EmptyRangeFails ==
  (smp.pc # "idle" /\ smp.max_value - smp.min_value <= 0) =>
     /\ smp.pc # "returned"
     /\ smp.pc = "raised" => smp.exc = "ValueError"

(***************************************************************************)
(* Properties of get_unique_id / get_unique_id_str.                        *)
(***************************************************************************)
\* a codec can be built of the alphabet the call works with
\* C11: a codec whose alphabet repeats a symbol anywhere is never built:
\* construction ends in an error and no codec exists.
C11_DuplicateFails ==
  (conv.state # "new"
     /\ Cardinality(Range(conv.alphabet)) < Len(conv.alphabet)) =>
     /\ conv.state = "failed"
     /\ conv.exc \in {"TypeError", "ValueError"}
     /\ conv.self = NoCodec

\* construction failed on a valid radix whose first radix symbols are all
\* different: the repetition lies at positions >= radix only
C11_Witness ==
  /\ conv.state = "failed"
  /\ conv.exc = "ValueError"
  /\ ~NotIntegral(conv.radix)
  /\ 2 <= conv.radix.num /\ conv.radix.num <= Len(conv.alphabet)
  /\ Cardinality({conv.alphabet[i] : i \in 1..conv.radix.num})
       = conv.radix.num
  /\ \E i, j \in (conv.radix.num + 1)..Len(conv.alphabet) :
        i # j /\ conv.alphabet[i] = conv.alphabet[j]

\* C12: int2str of a non-integral number is a TypeError and of a negative
\* integer a ValueError, neither with any digit produced; of an integer
\* >= 0, 0 included, it is a numeral of at least one digit.
C12_ArgumentChecks ==
  call.op = "int2str" =>
     /\ NotIntegral(call.n) =>
          (~call.res.ok /\ call.res.exc = "TypeError" /\ call.res.val = <<>>)
     /\ (~NotIntegral(call.n) /\ call.n.num < 0) =>
          (~call.res.ok /\ call.res.exc = "ValueError"
             /\ call.res.val = <<>>)
     /\ (~NotIntegral(call.n) /\ call.n.num >= 0) =>
          (call.res.ok /\ call.res.exc = "none" /\ Len(call.res.val) >= 1)

\* a negative non-integral argument was refused as a TypeError
C12_Witness ==
  /\ call.op = "int2str"
  /\ NotIntegral(call.n) /\ call.n.num < 0
  /\ ~call.res.ok /\ call.res.exc = "TypeError"

\* C20 (as stated): whenever int2str takes the native path its result is
\* the string the manual loop of lines 87-93 makes with the codec's alphabet.
C20_NativeIsManual ==
  (call.op = "int2str" /\ conv.state = "built" /\ call.res.ok
     /\ Int2strNative(conv.self)) =>
     call.res.val =
       Int2strLoop(call.n.num, conv.self.radix, conv.self.alphabet, <<>>)

UsableAlphabet ==
  alloc.variant \in {"int", "random_id"} \/ RandomIdStr(0, alloc.alphabet).ok

\* C2: the value returned was handed to is_unique, which answered true;
\* with is_unique = (c not in used_set) it is no member of used_set.
C2_ReturnsAccepted ==
  (alloc.pc = "returned" /\ Callable(alloc.pred)) =>
     /\ alloc.calls >= 1
     /\ alloc.checked = alloc.id
     /\ alloc.answer
     /\ alloc.pred.kind = "notin" =>
          IF alloc.variant = "int" THEN alloc.id.n \notin alloc.pred.usedN
          ELSE alloc.id.s \notin alloc.pred.usedS

\* a free string was returned after a candidate in use had been rejected
C2_Witness ==
  /\ alloc.pc = "returned"
  /\ alloc.variant = "str"
  /\ alloc.pred.kind = "notin"
  /\ alloc.calls >= 2
  /\ alloc.id.s \notin alloc.pred.usedS

\* C7 (as stated): every candidate of get_unique_id_str, handed to the
\* predicate or returned, is the drawn integer written in radix
\* len(alphabet) with the alphabet supplied (BASE62 when none is).
C7_CandidateInAlphabet ==
  (alloc.pc \in {"loop", "returned"} /\ alloc.variant = "str"
     /\ Callable(alloc.pred) /\ UsableAlphabet) =>
     alloc.id.s = RandomIdStr(alloc.id.n, alloc.alphabet).val

\* C8: with a predicate that accepts on its k-th call the allocation
\* returns in the end, and it has then called the predicate once for each
\* candidate drawn.
C8_EventuallyReturns ==
  /\ []((alloc.pc = "returned" /\ Callable(alloc.pred))
         => alloc.calls = alloc.draws)
  /\ (alloc.pc = "loop" /\ alloc.pred.kind = "kth" /\ UsableAlphabet)
       ~> (alloc.pc = "returned" /\ alloc.calls = alloc.pred.k)

\* the predicate accepted on its third call and the third candidate, a
\* string, was returned
C8_Witness ==
  /\ alloc.pc = "returned"
  /\ alloc.variant = "str"
  /\ alloc.pred.kind = "kth" /\ alloc.pred.k = 3
  /\ alloc.calls = 3 /\ alloc.draws = 3

\* the value of the bytes b0 b1 ... read as a base 256 numeral, most
\* significant byte first
RECURSIVE BigEndian(_)
BigEndian(bytes) ==
  IF bytes = <<>> THEN 0
  ELSE 256 * BigEndian(SubSeq(bytes, 1, Len(bytes) - 1)) + bytes[Len(bytes)]

\* the value of the string s read as a numeral in radix Len(alphabet),
\* the digit of a symbol being its position in the alphabet
RECURSIVE PositionalValue(_, _)
PositionalValue(s, alphabet) ==
  IF s = <<>> THEN 0
  ELSE Len(alphabet) * PositionalValue(SubSeq(s, 1, Len(s) - 1), alphabet)
         + (CHOOSE i \in 0..(Len(alphabet) - 1) :
              alphabet[i + 1] = s[Len(s)])

\* C13: once the predicate has raised on its k-th call the allocation has
\* ended with that error: exactly k candidates were drawn and k calls made,
\* the last on the candidate in hand, and nothing happens afterwards; and
\* an allocation never gets past the call on which its predicate raises.
C13_PredicateErrorEnds ==
  /\ []((alloc.pc = "raised" /\ alloc.exc = "PredicateError") =>
          /\ alloc.pred.kind = "raises"
          /\ alloc.calls = alloc.pred.k
          /\ alloc.draws = alloc.pred.k
          /\ alloc.checked = alloc.id)
  /\ []((alloc.pred.kind = "raises" /\ alloc.calls >= alloc.pred.k) =>
          (alloc.pc = "raised" /\ alloc.exc = "PredicateError"
             /\ alloc.calls = alloc.pred.k))
  /\ [][alloc.pc = "raised" => alloc' = alloc]_vars

\* the predicate raised on its second call, on the second string drawn
C13_Witness ==
  /\ alloc.pc = "raised"
  /\ alloc.exc = "PredicateError"
  /\ alloc.variant = "str"
  /\ alloc.pred.kind = "raises" /\ alloc.pred.k = 2
  /\ alloc.calls = 2 /\ alloc.draws = 2

C15_BigEndianValue ==
  (alloc.pc # "idle" /\ alloc.variant = "random_id") =>
     /\ alloc.pc = "returned"
     /\ Len(alloc.urandom) = SourceBytes
     /\ alloc.id.n = BigEndian(alloc.urandom)
     /\ 0 <= alloc.id.n /\ alloc.id.n <= 256 ^ SourceBytes - 1
     /\ alloc.calls = 0 /\ alloc.draws = 1 /\ alloc.uuids = 0

\* bytes with a leading zero byte and an unequal last byte gave the value
\* of the last byte
C15_Witness ==
  /\ alloc.pc = "returned"
  /\ alloc.variant = "random_id"
  /\ alloc.urandom[1] = 0
  /\ alloc.urandom[SourceBytes] = 255
  /\ alloc.id.n = 255

\* C16 (as stated): for an alphabet of at least 2 different symbols (BASE62
\* when none is supplied) get_random_id_str returns a string of symbols of
\* that alphabet whose value in radix len(alphabet) is the integer drawn.
C16_SymbolsOfAlphabet ==
  LET a == AlphabetOrDefault(alloc.alphabet)
  IN (alloc.pc # "idle" /\ alloc.variant = "random_id_str"
        /\ Len(a) >= 2 /\ Cardinality(Range(a)) = Len(a)) =>
        /\ alloc.pc = "returned"
        /\ alloc.id.n = BigEndian(alloc.urandom)
        /\ Len(alloc.id.s) >= 1
        /\ \A i \in 1..Len(alloc.id.s) : alloc.id.s[i] \in Range(a)
        /\ PositionalValue(alloc.id.s, a) = alloc.id.n

C18_GetterCalledIffStale ==
  cp.read.done =>
     LET r == cp.read
         stale == ~r.had_entry
                    \/ (cp.ttl > 0 /\ r.t - r.old_update > cp.ttl)
     IN /\ r.called <=> stale
        /\ ~r.called => /\ r.value = r.old_value
                        /\ r.new_value = r.old_value
                        /\ r.new_update = r.old_update
        /\ r.called => /\ r.value = cp.calls
                       /\ r.new_value = r.value
                       /\ r.new_update = r.t
        /\ (cp.ttl = 0 /\ r.had_entry) => ~r.called
        /\ r.after_del => (r.called /\ r.new_update = r.t)

\* with ttl = 2 a read exactly 2 after the last update returned the stored
\* value, which an earlier read had renewed
C18_Witness ==
  /\ cp.read.done
  /\ cp.ttl = 2
  /\ cp.read.had_entry
  /\ cp.read.t - cp.read.old_update = 2
  /\ ~cp.read.called
  /\ cp.read.value = cp.read.old_value
  /\ cp.calls = 2

Returned(i) == conc.p[i].pc \in {"returned", "inserted"}

\* C19 (as stated): two concurrent callers never return the same ID.
C19_NeverTheSameId ==
  (Returned(1) /\ Returned(2)) => conc.p[1].id # conc.p[2].id

\* C19 (amended): an ID returned was not in the set when the predicate
\* accepted it, so the two IDs differ whenever one caller's ID was in the
\* set before the predicate accepted the other's.
C19_DistinctOnceInserted ==
  \A i \in Callers :
     (Returned(i) /\ Returned(Other(i)) /\ conc.p[i].saw_other) =>
        conc.p[i].id # conc.p[Other(i)].id

\* the second caller drew the first caller's ID after it was in the set,
\* was refused, and returned another
C19_Witness ==
  /\ Returned(1) /\ Returned(2)
  /\ conc.p[2].saw_other
  /\ conc.p[1].calls = 1
  /\ conc.p[2].calls = 2
  /\ conc.used = {conc.p[1].id}
  /\ conc.p[1].id # conc.p[2].id

\* C21 (as stated): whenever str2int takes the native path on a string of
\* the codec's first radix symbols, the empty string included, its outcome
\* is that of the manual fold of lines 128-135.
C21_NativeIsFold ==
  (call.op = "str2int" /\ conv.state = "built"
     /\ Str2intNative(conv.self)
     /\ \A i \in 1..Len(call.s) : call.s[i] \in ValidSymbols(conv.self)) =>
     call.res = Str2intLoop(conv.self, call.s, 0)

\* C22: on the manual path int2str(n), n >= 0, is the numeral of n in the
\* codec's radix, most significant digit first: symbols of the first radix
\* of the alphabet whose value is n, the single symbol alphabet[0] for 0,
\* no leading alphabet[0] otherwise, and no more digits than n needs.
C22_ManualIsPositional ==
  (call.op = "int2str" /\ conv.state = "built"
     /\ ~Int2strNative(conv.self)
     /\ ~NotIntegral(call.n) /\ call.n.num >= 0) =>
     LET s == call.res.val
         n == call.n.num
         self == conv.self
     IN /\ call.res.ok
        /\ Len(s) >= 1
        /\ \A i \in 1..Len(s) : s[i] \in ValidSymbols(self)
        /\ PositionalValue(s, Prefix(self.alphabet, self.radix)) = n
        /\ n = 0 => s = <<self.alphabet[1]>>
        /\ n > 0 => (s[1] # self.alphabet[1]
                       /\ self.radix ^ (Len(s) - 1) <= n)

\* the docstring's NumConv(4, 'rofl').int2str(37) gave 'foo'
C22_Witness ==
  /\ call.op = "int2str"
  /\ conv.state = "built"
  /\ conv.self.alphabet = Rofl /\ conv.self.radix = 4
  /\ call.n = Num(37)
  /\ call.res = RetStr(<<102, 111, 111>>)

\* C23 (as stated): for every min_value < max_value, negative min_value
\* included, some draw out of [0, rand_max] makes random_in_range return,
\* so that a call cannot retry forever on every delivery of the source.
C23_SomeDrawAccepted ==
  (smp.pc # "idle" /\ smp.min_value < smp.arg_max) =>
     \E b \in 0..RandMax(smp.arg_max) :
        RandomInRangeBody(smp.arg_max, smp.min_value, b).kind = "return"

\* C24: with a predicate that is false on every candidate the allocation
\* has neither returned nor raised: it stands in its loop, each call of
\* the predicate was answered false and is followed by a new draw and the
\* next call, and no number of calls ends it.
C24_NeverEnds ==
  /\ []((alloc.pred.kind = "never" /\ alloc.pc # "idle"
           /\ UsableAlphabet) =>
          /\ alloc.pc = "loop"
          /\ alloc.draws = alloc.calls + 1
          /\ ~alloc.answer)
  /\ [][(alloc.pred.kind = "never" /\ alloc.pc = "loop"
           /\ UsableAlphabet) =>
          /\ alloc'.pc = "loop"
          /\ alloc'.calls = alloc.calls + 1
          /\ alloc'.draws = alloc.draws + 1
          /\ alloc'.checked = alloc.id]_vars
  /\ (alloc.pred.kind = "never" /\ alloc.pc = "loop" /\ UsableAlphabet)
       ~> (alloc.pc = "loop" /\ alloc.calls = MaxCalls)

\* get_unique_id_str still loops after as many refusals as are followed
C24_Witness ==
  /\ alloc.pred.kind = "never"
  /\ alloc.variant = "str"
  /\ alloc.alphabet = Rofl
  /\ alloc.pc = "loop"
  /\ alloc.calls = MaxCalls
  /\ alloc.draws = MaxCalls + 1
  /\ ~alloc.answer

\* NumConv(radix, alphabet) built anew, for every radix and alphabet of the
\* model
FreshCodecs ==
  {[radix |-> radix, alphabet |-> alphabet,
    built |-> NumConvInit(radix, alphabet)] :
      radix \in RadixInputs, alphabet \in CodecAlphabets}

FreshCodec(radix, alphabet) ==
  (CHOOSE f \in FreshCodecs : f.radix = radix /\ f.alphabet = alphabet).built

Inside(i) == lock.p[i].pc = "inside"

\* C26 (as stated): at most one process is inside the guarded block at any
\* time.
C26_AtMostOneInside ==
  Cardinality({i \in Procs : Inside(i)}) <= 1

\* C27: when a call that entered the block ends, returning or raising,
\* the entry is gone from the cache, and an entry is in the cache only
\* while some call is inside; a call refused on the has_key check ends in
\* MutexError, or silently under fail_silently, without running the
\* function and with the cache entry as it was.
C27_ReleasedOnExit ==
  /\ [][\A i \in Procs :
          (Inside(i) /\ lock'.p[i].pc # "inside") =>
             /\ lock'.entry = 0
             /\ lock'.p[i].last \in {"returned", "raised"}]_vars
  /\ [](has_key(lock.entry) => \E i \in Procs : Inside(i))
  /\ [][\A i \in Procs :
          (lock.p[i].pc = "enter" /\ has_key(lock.entry)
             /\ lock'.p[i] # lock.p[i]) =>
             /\ lock'.entry = lock.entry
             /\ lock'.p[i].pc = "idle"
             /\ lock'.p[i].runs = lock.p[i].runs
             /\ lock'.p[i].last =
                  (IF lock.fail_silently THEN "silenced"
                   ELSE "MutexError")]_vars
  /\ [](\A i \in Procs : lock.p[i].runs + lock.p[i].refused
                             <= lock.p[i].calls)

\* the second process, refused while the first was inside, acquired the
\* lock on a later call after the first had left the block by raising
C27_Witness ==
  /\ lock.p[1].last = "raised"
  /\ lock.p[1].pc = "idle"
  /\ lock.p[2].refused = 1
  /\ lock.p[2].runs = 1
  /\ Inside(2)
  /\ lock.entry = 2

C29_RecomputedAfterInvalidate ==
  /\ \A i \in Instances : memo.since[i] <= 1
  /\ memo.last.was_due => memo.last.computed

\* C30 (as stated): once load_fixture has finished, whether loaddata
\* returned or raised, models.get_model is Django's function again.
C30_GetModelRestored ==
  (fx.pc = "idle" /\ fx.calls >= 1) => fx.get_model = DjangoGetModel

====
